---- MODULE Spec2Model ----
(***************************************************************************)
(* Model of the JOS/xv6 system-call layer (kern/syscall.c) and of the      *)
(* user-level IPC library (lib/ipc.c): environments, their address spaces, *)
(* the reference-counted physical frames, and the capability-checked       *)
(* memory-grant and rendezvous-IPC system calls.  Every system call runs   *)
(* to completion (the kernel is not preemptible), so a call is one action. *)
(***************************************************************************)
EXTENDS Integers, Sequences, FiniteSets, TLC

(***************************************************************************)
(* Bounds of the model.                                                    *)
(***************************************************************************)
NENV == 3          \* environment slots in use
NFRAMES == 3       \* allocatable physical frames
NUPAGES == 3       \* user pages below UTOP
MaxValue == 2      \* message words are 1..MaxValue
MaxSteps == 2      \* system calls per behaviour

(***************************************************************************)
(* Program constants (inc/mmu.h, inc/memlayout.h, inc/error.h, inc/env.h). *)
(***************************************************************************)
PGSIZE == 2                      \* a page holds PGSIZE addresses
UTOP == NUPAGES * PGSIZE         \* user/kernel split, the "no page" value
PPREF_MOD == 65536               \* pp_ref is a uint16_t

PTE_P == "P"
PTE_W == "W"
PTE_U == "U"
PTE_PWT == "PWT"                 \* a bit outside PTE_USER

E_BAD_ENV == 2
E_INVAL == 3
E_NO_MEM == 4
E_NO_FREE_ENV == 5
E_IPC_NOT_RECV == 7

ENV_FREE == "FREE"
ENV_RUNNABLE == "RUNNABLE"
ENV_NOT_RUNNABLE == "NOT_RUNNABLE"
ENV_DYING == "DYING"

Envs == 1..NENV
Frames == 1..NFRAMES
KFRAME == 0                      \* the kernel frame mapped read-only at UTOP
UserPages == {p * PGSIZE : p \in 0..(NUPAGES - 1)}
KernPages == {UTOP}
BadEnvId == NENV + 1             \* a handle that resolves to no environment

NoPte == [frame |-> KFRAME, perm |-> {}]       \* *pte == 0

VARIABLES envs, pgdir, env_pt, kern_pt, pp_ref, page_free_list, last, steps,
          env_free_list,   \* the free environment slots (kern/env.c)
          panicked,        \* the kernel has panicked
          pc,              \* where each environment's user code stands
          lib              \* each environment's call of lib/ipc.c, if any

vars == <<envs, pgdir, env_pt, kern_pt, pp_ref, page_free_list, last, steps,
          env_free_list, panicked, pc, lib>>

(***************************************************************************)
(* The kernel state handed to a handler, with the handler's result.        *)
(***************************************************************************)
K == [envs |-> envs, pgdir |-> pgdir, env_pt |-> env_pt, kern_pt |-> kern_pt,
      pp_ref |-> pp_ref, free |-> page_free_list, ret |-> 0,
      env_free |-> env_free_list, panic |-> panicked]

Ret(k, r) == [k EXCEPT !.ret = r]

(***************************************************************************)
(* Collaborators of kern/pmap.c and kern/env.c, by their call contracts.   *)
(***************************************************************************)
RECURSIVE IsDescendant(_, _, _, _)
IsDescendant(k, e, cur, fuel) ==
    IF fuel = 0 \/ k.envs[e].env_parent_id = 0 THEN FALSE
    ELSE \/ k.envs[e].env_parent_id = k.envs[cur].env_id
         \/ \E p \in Envs : /\ k.envs[p].env_id = k.envs[e].env_parent_id
                            /\ IsDescendant(k, p, cur, fuel - 1)

\* envid2env: the slot the handle resolves to, 0 when it fails (-E_BAD_ENV).
envid2env(k, cur, envid, checkperm) ==
    IF envid = 0 THEN cur
    ELSE LET hit == {e \in Envs : k.envs[e].env_id = envid
                                  /\ k.envs[e].env_status # ENV_FREE}
         IN  IF hit = {} THEN 0
             ELSE LET e == CHOOSE x \in hit : TRUE
                  IN  IF checkperm /\ e # cur /\ ~IsDescendant(k, e, cur, NENV)
                      THEN 0 ELSE e

\* The page-table entry of va in e's address space; the entries at and above
\* UTOP live in page tables every page directory shares.
PteAt(k, e, va) == IF va >= UTOP THEN k.kern_pt[va] ELSE k.pgdir[e][va]

SetPte(k, e, va, pte) ==
    IF va >= UTOP THEN [k EXCEPT !.kern_pt[va] = pte]
    ELSE [k EXCEPT !.pgdir[e][va] = pte]

\* page_free: back on the head of the free list.
page_free(k, f) == [k EXCEPT !.free = <<f>> \o k.free]

\* page_decref: drop one reference, free the frame when none is left.
page_decref(k, f) ==
    LET r  == (k.pp_ref[f] - 1) % PPREF_MOD
        k1 == [k EXCEPT !.pp_ref[f] = r]
    IN  IF r = 0 THEN page_free(k1, f) ELSE k1

\* page_lookup: the frame mapped at va, KFRAME - 1 standing for NULL.
NullPage == KFRAME - 1
page_lookup(k, e, va) ==
    IF PTE_P \in PteAt(k, e, va).perm THEN PteAt(k, e, va).frame ELSE NullPage

\* pgdir_walk(create = 1): the user page table is allocated on first use.
HasPageTable(k, e, va) == va >= UTOP \/ k.env_pt[e] # 0

\* page_insert: [ok, k]; fails, changing nothing, when a page table is needed
\* and no frame is free.
page_insert(k, e, f, va, perm) ==
    IF ~HasPageTable(k, e, va) /\ k.free = <<>>
    THEN [ok |-> FALSE, k |-> k]
    ELSE LET k1 == IF HasPageTable(k, e, va) THEN k
                   ELSE [k EXCEPT !.env_pt[e] = Head(k.free),
                                  !.pp_ref[Head(k.free)] = 1,
                                  !.free = Tail(k.free)]
             k2 == [k1 EXCEPT !.pp_ref[f] = (k1.pp_ref[f] + 1) % PPREF_MOD]
             old == PteAt(k2, e, va)
             k3 == IF PTE_P \in old.perm
                   THEN page_decref(SetPte(k2, e, va, NoPte), old.frame)
                   ELSE k2
         IN  [ok |-> TRUE,
              k  |-> SetPte(k3, e, va, [frame |-> f, perm |-> perm \cup {PTE_P}])]

\* page_alloc: [ok, frame, k]; the frame leaves the free list with pp_ref 0.
page_alloc(k) ==
    IF k.free = <<>> THEN [ok |-> FALSE, frame |-> NullPage, k |-> k]
    ELSE [ok |-> TRUE, frame |-> Head(k.free), k |-> [k EXCEPT !.free = Tail(k.free)]]

Aligned(va) == va % PGSIZE = 0

\* env_alloc: [err, e, k].  It fails with -E_NO_FREE_ENV when no slot is
\* free and with -E_NO_MEM when env_setup_vm gets no frame for the page
\* directory (pd_ok false); otherwise the head of the free list becomes a
\* fresh environment, child of parent_id, with an empty address space.
ZeroTf == [reg_eax |-> 0, tf_eip |-> 0]

env_alloc(k, parent_id, pd_ok) ==
    IF k.env_free = <<>> THEN [err |-> -E_NO_FREE_ENV, e |-> 0, k |-> k]
    ELSE IF ~pd_ok THEN [err |-> -E_NO_MEM, e |-> 0, k |-> k]
    ELSE LET e == Head(k.env_free) IN
         [err |-> 0, e |-> e,
          k |-> [k EXCEPT !.env_free = Tail(k.env_free),
                          !.envs[e] = [env_id |-> e,
                                       env_parent_id |-> parent_id,
                                       env_status |-> ENV_RUNNABLE,
                                       env_tf |-> ZeroTf,
                                       env_pgfault_upcall |-> 0,
                                       env_ipc_recving |-> FALSE,
                                       env_ipc_dstva |-> 0,
                                       env_ipc_from |-> 0,
                                       env_ipc_value |-> 0,
                                       env_ipc_perm |-> {}]]]

\* env_free: every user mapping of e is removed, its page table released,
\* and the slot goes back on the free list.
RECURSIVE UnmapAll(_, _, _)
UnmapAll(k, e, pages) ==
    IF pages = {} THEN k
    ELSE LET va == CHOOSE x \in pages : \A y \in pages : x <= y
             k1 == IF PTE_P \in k.pgdir[e][va].perm
                   THEN page_decref(SetPte(k, e, va, NoPte), k.pgdir[e][va].frame)
                   ELSE k
         IN  UnmapAll(k1, e, pages \ {va})

env_free(k, e) ==
    LET k1 == UnmapAll(k, e, UserPages)
        k2 == IF k1.env_pt[e] # 0
              THEN page_decref([k1 EXCEPT !.env_pt[e] = 0], k1.env_pt[e])
              ELSE k1
    IN  [k2 EXCEPT !.envs[e].env_status = ENV_FREE,
                   !.env_free = <<e>> \o k2.env_free]

\* env_destroy: the environment is freed; when it is the current one the
\* scheduler picks another and the call never returns to it.
env_destroy(k, e) == env_free(k, e)

\* user_mem_check: every page overlapping [va, va + len) is mapped in e with
\* perm and PTE_U.  An empty range has no page to check.
user_mem_check(k, e, va, len, perm) ==
    \A p \in UserPages \cup KernPages :
        (p < va + len /\ p + PGSIZE > va)
            => (perm \cup {PTE_U}) \subseteq PteAt(k, e, p).perm

\* The trap frame stored in physical frame f (the frame's contents).
TfIn(f) == [reg_eax |-> f, tf_eip |-> NENV + f]

(***************************************************************************)
(* kern/syscall.c: the handlers.  Each takes the kernel state k and the    *)
(* calling environment cur (curenv) and yields the state it leaves, with   *)
(* its return value in ret.                                                *)
(***************************************************************************)
\* (void *)UTOP < va || 0 != (unsigned int)va % PGSIZE
BadPageVa(va) == UTOP < va \/ ~Aligned(va)

\* (PTE_U | PTE_P) != ((PTE_U | PTE_P) & perm)
LacksUserPresent(perm) == {PTE_U, PTE_P} # ({PTE_U, PTE_P} \cap perm)

\* Variant: the write grant is not compared with the source mapping.
GrantsWriteOnReadOnly_Never(perm, pte) == FALSE

\* (PTE_W == (PTE_W & perm)) && (PTE_W != (PTE_W & *pte))
GrantsWriteOnReadOnly(perm, pte) == PTE_W \in perm /\ PTE_W \notin pte.perm

sys_page_alloc(k, cur, envid, va, perm) ==
    IF BadPageVa(va) THEN Ret(k, -E_INVAL)
    ELSE LET e == envid2env(k, cur, envid, TRUE) IN
    IF e = 0 THEN Ret(k, -E_BAD_ENV)
    ELSE IF LacksUserPresent(perm) THEN Ret(k, -E_INVAL)
    ELSE LET a == page_alloc(k) IN
    IF ~a.ok THEN Ret(k, -E_NO_MEM)
    ELSE LET i == page_insert(a.k, e, a.frame, va, perm) IN
    IF ~i.ok THEN Ret(i.k, -E_NO_MEM)
    ELSE Ret(i.k, 0)

sys_page_map(k, cur, srcenvid, srcva, dstenvid, dstva, perm) ==
    LET srcenv == envid2env(k, cur, srcenvid, TRUE)
        dstenv == envid2env(k, cur, dstenvid, TRUE)
    IN
    IF srcenv = 0 \/ dstenv = 0 THEN Ret(k, -E_BAD_ENV)
    ELSE IF BadPageVa(srcva) \/ BadPageVa(dstva) THEN Ret(k, -E_INVAL)
    ELSE LET pag == page_lookup(k, srcenv, srcva)
             pte == PteAt(k, srcenv, srcva)
    IN
    IF pag = NullPage THEN Ret(k, -E_INVAL)
    ELSE IF LacksUserPresent(pte.perm) THEN Ret(k, -E_INVAL)
    ELSE IF GrantsWriteOnReadOnly(perm, pte) THEN Ret(k, -E_INVAL)
    ELSE LET i == page_insert(k, dstenv, pag, dstva, perm) IN
    IF ~i.ok THEN Ret(i.k, -E_NO_MEM)
    ELSE Ret(i.k, 0)

\* Variant: the reference is dropped but the entry is left in place.
sys_page_unmap_KeepPte(k, cur, envid, va) ==
    IF BadPageVa(va) THEN Ret(k, -E_INVAL)
    ELSE LET e == envid2env(k, cur, envid, TRUE) IN
    IF e = 0 THEN Ret(k, -E_BAD_ENV)
    ELSE LET pag == page_lookup(k, e, va)
             pte == PteAt(k, e, va)
    IN
    IF pag # NullPage /\ pte # NoPte
    THEN Ret(page_decref(k, pag), 0)
    ELSE Ret(k, 0)

sys_page_unmap(k, cur, envid, va) ==
    IF BadPageVa(va) THEN Ret(k, -E_INVAL)
    ELSE LET e == envid2env(k, cur, envid, TRUE) IN
    IF e = 0 THEN Ret(k, -E_BAD_ENV)
    ELSE LET pag == page_lookup(k, e, va)
             pte == PteAt(k, e, va)
    IN
    IF pag # NullPage /\ pte # NoPte
    THEN Ret(page_decref(SetPte(k, e, va, NoPte), pag), 0)
    ELSE Ret(k, 0)

sys_env_set_status(k, cur, envid, status) ==
    LET e == envid2env(k, cur, envid, TRUE) IN
    IF e = 0 THEN Ret(k, -E_BAD_ENV)
    ELSE IF k.envs[e].env_status # ENV_RUNNABLE
            /\ k.envs[e].env_status # ENV_NOT_RUNNABLE
    THEN Ret(k, -E_INVAL)
    ELSE Ret([k EXCEPT !.envs[e].env_status = status], 0)

sys_env_destroy(k, cur, envid) ==
    LET e == envid2env(k, cur, envid, TRUE) IN
    IF e = 0 THEN Ret(k, -E_BAD_ENV)
    ELSE Ret(env_destroy(k, e), 0)

\* Variant: the child keeps the status env_alloc gave it.
sys_exofork_Runnable(k, cur, pd_ok) ==
    LET a == env_alloc(k, k.envs[cur].env_id, pd_ok) IN
    IF a.err # 0 THEN Ret(k, -E_NO_FREE_ENV)
    ELSE Ret([a.k EXCEPT
                !.envs[a.e].env_tf = [k.envs[cur].env_tf EXCEPT !.reg_eax = 0]],
             a.k.envs[a.e].env_id)

sys_exofork(k, cur, pd_ok) ==
    LET a == env_alloc(k, k.envs[cur].env_id, pd_ok) IN
    IF a.err # 0 THEN Ret(k, -E_NO_FREE_ENV)
    ELSE Ret([a.k EXCEPT
                !.envs[a.e].env_status = ENV_NOT_RUNNABLE,
                !.envs[a.e].env_tf = [k.envs[cur].env_tf EXCEPT !.reg_eax = 0]],
             a.k.envs[a.e].env_id)

\* user_mem_assert(env, va, len, perm): the environment that fails the check
\* is destroyed.
user_mem_assert(k, e, va, len, perm) ==
    IF user_mem_check(k, e, va, len, perm) THEN k ELSE env_destroy(k, e)

\* env->env_tf = *tf: the kernel reads *tf through the current (the
\* caller's) page directory and faults, which is a panic, when no page is
\* present there.
CopyTrapframe(k, cur, e, tf) ==
    LET pte == PteAt(k, cur, tf - (tf % PGSIZE)) IN
    IF PTE_P \notin pte.perm THEN [k EXCEPT !.panic = TRUE]
    ELSE [k EXCEPT !.envs[e].env_tf = TfIn(pte.frame)]

\* user_mem_assert(env, tf, 0, PTE_P) checks the target's address space over
\* an empty range; when the target is the caller and is destroyed the call
\* does not return.
sys_env_set_trapframe(k, cur, envid, tf) ==
    LET e == envid2env(k, cur, envid, TRUE) IN
    IF e = 0 THEN Ret(k, -E_BAD_ENV)
    ELSE LET k1 == user_mem_assert(k, e, tf, 0, {PTE_P}) IN
    IF k1.envs[cur].env_status = ENV_FREE THEN Ret(k1, 0)
    ELSE Ret(CopyTrapframe(k1, cur, e, tf), 0)

sys_env_set_pgfault_upcall(k, cur, envid, func) ==
    LET e == envid2env(k, cur, envid, TRUE) IN
    IF e = 0 THEN Ret(k, -E_BAD_ENV)
    ELSE Ret([k EXCEPT !.envs[e].env_pgfault_upcall = func], 0)

\* Variant: the readiness test looks at the status alone.
IpcNotReady_StatusOnly(env) == env.env_status # ENV_NOT_RUNNABLE

\* (ENV_NOT_RUNNABLE != dstenv->env_status) || (false == dstenv->env_ipc_recving)
IpcNotReady(env) ==
    env.env_status # ENV_NOT_RUNNABLE \/ env.env_ipc_recving = FALSE

\* (void *)UTOP > srcva && (void *)UTOP > dstenv->env_ipc_dstva
IpcPageStep(srcva, dstva) == UTOP > srcva /\ UTOP > dstva

\* Variant: the hand-off leaves env_ipc_recving set.
IpcDeliver_KeepRecving(k, cur, dstenv, value, p) ==
    [k EXCEPT !.envs[dstenv].env_ipc_perm = p,
              !.envs[dstenv].env_ipc_value = value,
              !.envs[dstenv].env_ipc_from = k.envs[cur].env_id,
              !.envs[dstenv].env_tf.reg_eax = 0,
              !.envs[dstenv].env_status = ENV_RUNNABLE]

\* Variant: the hand-off does not record the sender.
IpcDeliver_NoFrom(k, cur, dstenv, value, p) ==
    [k EXCEPT !.envs[dstenv].env_ipc_perm = p,
              !.envs[dstenv].env_ipc_value = value,
              !.envs[dstenv].env_ipc_recving = FALSE,
              !.envs[dstenv].env_tf.reg_eax = 0,
              !.envs[dstenv].env_status = ENV_RUNNABLE]

\* The hand-off that ends a successful send, p being the permission recorded.
IpcDeliver(k, cur, dstenv, value, p) ==
    [k EXCEPT !.envs[dstenv].env_ipc_perm = p,
              !.envs[dstenv].env_ipc_value = value,
              !.envs[dstenv].env_ipc_recving = FALSE,
              !.envs[dstenv].env_ipc_from = k.envs[cur].env_id,
              !.envs[dstenv].env_tf.reg_eax = 0,
              !.envs[dstenv].env_status = ENV_RUNNABLE]

\* Variant: the page is inserted before the grant is validated.
IpcPageTransfer_InsertFirst(k, cur, dstenv, srcva, perm) ==
    IF ~Aligned(srcva) THEN Ret(k, -E_INVAL)
    ELSE LET pag == page_lookup(k, cur, srcva)
             pte == PteAt(k, cur, srcva)
    IN
    IF pag = NullPage \/ pte = NoPte THEN Ret(k, -E_INVAL)
    ELSE LET i == page_insert(k, dstenv, pag, k.envs[dstenv].env_ipc_dstva, perm) IN
    IF ~i.ok THEN Ret(i.k, -E_NO_MEM)
    ELSE IF LacksUserPresent(pte.perm) THEN Ret(i.k, -E_INVAL)
    ELSE IF GrantsWriteOnReadOnly(perm, pte) THEN Ret(i.k, -E_INVAL)
    ELSE Ret(i.k, 0)

\* The page step of a send: the page at srcva of the sender is mapped at the
\* address the receiver asked for.
IpcPageTransfer(k, cur, dstenv, srcva, perm) ==
    IF ~Aligned(srcva) THEN Ret(k, -E_INVAL)
    ELSE LET pag == page_lookup(k, cur, srcva)
             pte == PteAt(k, cur, srcva)
    IN
    IF pag = NullPage \/ pte = NoPte THEN Ret(k, -E_INVAL)
    ELSE IF LacksUserPresent(pte.perm) THEN Ret(k, -E_INVAL)
    ELSE IF GrantsWriteOnReadOnly(perm, pte) THEN Ret(k, -E_INVAL)
    ELSE LET i == page_insert(k, dstenv, pag, k.envs[dstenv].env_ipc_dstva, perm) IN
    IF ~i.ok THEN Ret(i.k, -E_NO_MEM)
    ELSE Ret(i.k, 0)

sys_ipc_try_send(k, cur, envid, value, srcva, perm) ==
    LET dstenv == envid2env(k, cur, envid, FALSE) IN
    IF dstenv = 0 THEN Ret(k, -E_BAD_ENV)
    ELSE IF IpcNotReady(k.envs[dstenv]) THEN Ret(k, -E_IPC_NOT_RECV)
    ELSE IF IpcPageStep(srcva, k.envs[dstenv].env_ipc_dstva)
    THEN LET t == IpcPageTransfer(k, cur, dstenv, srcva, perm) IN
         IF t.ret # 0 THEN t
         ELSE Ret(IpcDeliver(t, cur, dstenv, value, perm), 0)
    ELSE Ret(IpcDeliver(k, cur, dstenv, value, {}), 0)

\* Variant: the address is recorded as given, also at and above UTOP.
sys_ipc_recv_AsGiven(k, cur, dstva) ==
    IF UTOP > dstva /\ ~Aligned(dstva) THEN Ret(k, -E_INVAL)
    ELSE Ret([k EXCEPT
                !.envs[cur].env_ipc_dstva = dstva,
                !.envs[cur].env_ipc_recving = TRUE,
                !.envs[cur].env_status = ENV_NOT_RUNNABLE], 0)

sys_ipc_recv(k, cur, dstva) ==
    IF UTOP > dstva /\ ~Aligned(dstva) THEN Ret(k, -E_INVAL)
    ELSE Ret([k EXCEPT
                !.envs[cur].env_ipc_dstva = IF UTOP > dstva THEN dstva ELSE UTOP,
                !.envs[cur].env_ipc_recving = TRUE,
                !.envs[cur].env_status = ENV_NOT_RUNNABLE], 0)

(***************************************************************************)
(* lib/ipc.c: the user-level wrappers.  A null page pointer means "no      *)
(* page" and is passed to the kernel as UTOP.                              *)
(***************************************************************************)
NULL == 0

ipc_recv_arg(pg) == IF pg = NULL THEN UTOP ELSE pg

\* Variant: the sender's wrapper never offers its page.
ipc_send_arg_NoPage(pg) == UTOP

ipc_send_arg(pg) == IF pg = NULL THEN UTOP ELSE pg

\* What ipc_recv hands back once sys_ipc_recv has returned r in environment
\* cur: the error with from and perm zeroed, or the message read from the
\* environment's own record.
ipc_recv_result(k, cur, r) ==
    IF r < 0 THEN [ret |-> r, from |-> 0, perm |-> {}]
    ELSE [ret |-> k.envs[cur].env_ipc_value,
          from |-> k.envs[cur].env_ipc_from,
          perm |-> k.envs[cur].env_ipc_perm]

\* No call of ipc_send or ipc_recv is in progress in any environment.
NoLibCall ==
    [at |-> "user", to_env |-> 0, val |-> 0, pg |-> NULL, perm |-> {},
     result |-> [ret |-> 0, from |-> 0, perm |-> {}]]

LibIdle == [e \in Envs |-> NoLibCall]

(***************************************************************************)
(* The system-call gateway.  A call is a record naming the operation, the  *)
(* calling environment and the arguments.                                  *)
(***************************************************************************)
NoCall == [op |-> "none", cur |-> 0, envid |-> 0, va |-> 0, perm |-> {},
           value |-> 0, dstenvid |-> 0, dstva |-> 0, status |-> ENV_FREE,
           pd_ok |-> TRUE]

syscall(k, c) ==
    CASE c.op = "page_alloc"     -> sys_page_alloc(k, c.cur, c.envid, c.va, c.perm)
      [] c.op = "page_map"       -> sys_page_map(k, c.cur, c.envid, c.va,
                                                 c.dstenvid, c.dstva, c.perm)
      [] c.op = "page_unmap"     -> sys_page_unmap(k, c.cur, c.envid, c.va)
      [] c.op = "env_set_status" -> sys_env_set_status(k, c.cur, c.envid, c.status)
      [] c.op = "ipc_try_send"   -> sys_ipc_try_send(k, c.cur, c.envid, c.value,
                                                     c.va, c.perm)
      [] c.op = "ipc_recv"       -> sys_ipc_recv(k, c.cur, c.va)
      [] c.op = "env_destroy"    -> sys_env_destroy(k, c.cur, c.envid)
      [] c.op = "exofork"        -> sys_exofork(k, c.cur, c.pd_ok)
      [] c.op = "env_set_trapframe" ->
                                    sys_env_set_trapframe(k, c.cur, c.envid, c.va)
      [] c.op = "env_set_pgfault_upcall" ->
                                    sys_env_set_pgfault_upcall(k, c.cur, c.envid, c.va)
      [] OTHER                   -> Ret(k, -E_INVAL)

\* trap_dispatch: run the call for curenv and store its result in the
\* caller's saved return-value register.
InFreeList(k, e) == \E i \in DOMAIN k.env_free : k.env_free[i] = e

\* A call that destroys its caller, or in which the kernel panics, never
\* returns to the trap handler.
Returns(k, r, cur) == ~r.panic /\ (InFreeList(r, cur) => InFreeList(k, cur))

trap_dispatch(k, c) ==
    LET r == syscall(k, c) IN
    IF Returns(k, r, c.cur) THEN [r EXCEPT !.envs[c.cur].env_tf.reg_eax = r.ret]
    ELSE r

\* The record kept of the latest call: operation, caller and result, and
\* for a send the handle, page address and permission it passed.
Record(c, ret) ==
    LET send == c.op = "ipc_try_send" IN
    [op |-> c.op, cur |-> c.cur,
     envid |-> IF send THEN c.envid ELSE 0,
     va |-> IF send THEN c.va ELSE 0,
     perm |-> IF send THEN c.perm ELSE {},
     ret |-> ret]

\* The scheduler runs only RUNNABLE environments.
CanRun(k, e) == k.envs[e].env_status = ENV_RUNNABLE

\* Where the caller's user code stands after its call: suspended inside
\* sys_ipc_recv when that call succeeded (it resumes only when the scheduler
\* next runs the environment), in user code otherwise.
Resumes(c, ret) == IF c.op = "ipc_recv" /\ ret = 0 THEN "recv" ELSE "user"

Trap(c) ==
    LET r == trap_dispatch(K, c) IN
    /\ steps < MaxSteps
    /\ ~panicked
    /\ CanRun(K, c.cur)
    /\ envs' = r.envs
    /\ pgdir' = r.pgdir
    /\ env_pt' = r.env_pt
    /\ kern_pt' = r.kern_pt
    /\ pp_ref' = r.pp_ref
    /\ page_free_list' = r.free
    /\ env_free_list' = r.env_free
    /\ panicked' = r.panic
    /\ pc' = [pc EXCEPT ![c.cur] = Resumes(c, r.ret)]
    /\ last' = Record(c, r.ret)
    /\ steps' = steps + 1
    /\ UNCHANGED lib

(***************************************************************************)
(* The calls user code can make.  Handle 0 names the caller itself.        *)
(***************************************************************************)
PageAllocCall(cur, envid, va, perm) ==
    [NoCall EXCEPT !.op = "page_alloc", !.cur = cur, !.envid = envid,
                   !.va = va, !.perm = perm]
PageMapCall(cur, srcenvid, srcva, dstenvid, dstva, perm) ==
    [NoCall EXCEPT !.op = "page_map", !.cur = cur, !.envid = srcenvid,
                   !.va = srcva, !.dstenvid = dstenvid, !.dstva = dstva,
                   !.perm = perm]
PageUnmapCall(cur, envid, va) ==
    [NoCall EXCEPT !.op = "page_unmap", !.cur = cur, !.envid = envid, !.va = va]
EnvSetStatusCall(cur, envid, status) ==
    [NoCall EXCEPT !.op = "env_set_status", !.cur = cur, !.envid = envid,
                   !.status = status]
IpcTrySendCall(cur, envid, value, srcva, perm) ==
    [NoCall EXCEPT !.op = "ipc_try_send", !.cur = cur, !.envid = envid,
                   !.value = value, !.va = srcva, !.perm = perm]
IpcRecvCall(cur, dstva) ==
    [NoCall EXCEPT !.op = "ipc_recv", !.cur = cur, !.va = dstva]
EnvDestroyCall(cur, envid) ==
    [NoCall EXCEPT !.op = "env_destroy", !.cur = cur, !.envid = envid]
ExoforkCall(cur, pd_ok) ==
    [NoCall EXCEPT !.op = "exofork", !.cur = cur, !.pd_ok = pd_ok]
EnvSetTrapframeCall(cur, envid, tf) ==
    [NoCall EXCEPT !.op = "env_set_trapframe", !.cur = cur, !.envid = envid,
                   !.va = tf]
EnvSetPgfaultUpcallCall(cur, envid, func) ==
    [NoCall EXCEPT !.op = "env_set_pgfault_upcall", !.cur = cur,
                   !.envid = envid, !.va = func]

\* The argument values the properties range over.
EnvIds(cur) == (0..BadEnvId) \ {cur}
VAs == UserPages \cup {PGSIZE - 1, UTOP, UTOP + PGSIZE}
Values == 1..MaxValue
Perms == { {PTE_P, PTE_U}, {PTE_P, PTE_U, PTE_W}, {PTE_P, PTE_U, PTE_PWT},
           {PTE_P, PTE_W}, {PTE_U}, {} }
Statuses == {ENV_FREE, ENV_RUNNABLE, ENV_NOT_RUNNABLE, ENV_DYING}

\* The argument values the environments of a behaviour pass: the user pages
\* (and, in a send or a receive, the split address for "no page"), the two
\* legal permissions, themselves and each other.
RunVAs == UserPages \cup {UTOP}
RunPerms == { {PTE_P, PTE_U}, {PTE_P, PTE_U, PTE_W} }
Live(cur) == (0..NENV) \ {cur}

PageAlloc ==
    \E cur \in Envs : \E envid \in Live(cur), va \in UserPages, perm \in RunPerms :
        Trap(PageAllocCall(cur, envid, va, perm))

PageMap ==
    \E cur \in Envs : \E srcva \in UserPages, dstenvid \in Live(cur),
                         dstva \in UserPages, perm \in RunPerms :
        Trap(PageMapCall(cur, 0, srcva, dstenvid, dstva, perm))

PageUnmap ==
    \E cur \in Envs : \E envid \in Live(cur), va \in UserPages :
        Trap(PageUnmapCall(cur, envid, va))

EnvSetStatus ==
    \E cur \in Envs : \E envid \in Live(cur), status \in Statuses :
        Trap(EnvSetStatusCall(cur, envid, status))

IpcTrySend ==
    \E cur \in Envs : \E envid \in Live(cur) \ {0}, value \in Values,
                         srcva \in RunVAs, perm \in RunPerms :
        Trap(IpcTrySendCall(cur, envid, value, srcva, perm))

IpcRecv ==
    \E cur \in Envs, dstva \in RunVAs \cup {PGSIZE - 1} :
        Trap(IpcRecvCall(cur, dstva))

(***************************************************************************)
(* The initial states: environment 1 is the root, loaded with a page table *)
(* and one writable page, the last below UTOP (env_create); the others are *)
(* its children, made runnable with empty address spaces (sys_exofork,     *)
(* sys_env_set_status); environment 2 is either still running or already   *)
(* blocked in sys_ipc_recv, asking for a page at a user address or for     *)
(* none.                                                                   *)
(***************************************************************************)
InitEnv(e) ==
    [env_id |-> e,
     env_parent_id |-> IF e = 1 THEN 0 ELSE 1,
     env_status |-> ENV_RUNNABLE,
     env_tf |-> [reg_eax |-> 0, tf_eip |-> e],
     env_pgfault_upcall |-> 0,
     env_ipc_recving |-> FALSE,
     env_ipc_dstva |-> 0,
     env_ipc_from |-> 0,
     env_ipc_value |-> 0,
     env_ipc_perm |-> {}]

InitEnvs == [e \in Envs |-> InitEnv(e)]

InitK ==
    [envs |-> InitEnvs,
     pgdir |-> [e \in Envs |-> [va \in UserPages |->
                  IF e = 1 /\ va = UTOP - PGSIZE
                  THEN [frame |-> 2, perm |-> {PTE_P, PTE_U, PTE_W}] ELSE NoPte]],
     env_pt |-> [e \in Envs |-> IF e = 1 THEN 1 ELSE 0],
     kern_pt |-> [va \in KernPages |-> [frame |-> KFRAME, perm |-> {PTE_P, PTE_U}]],
     pp_ref |-> [f \in Frames \cup {KFRAME} |-> IF f \in {1, 2} THEN 1 ELSE 0],
     free |-> [i \in 1..(NFRAMES - 2) |-> i + 2],
     ret |-> 0,
     env_free |-> <<>>,
     panic |-> FALSE]

Init ==
    /\ pgdir = InitK.pgdir
    /\ env_pt = InitK.env_pt
    /\ kern_pt = InitK.kern_pt
    /\ pp_ref = InitK.pp_ref
    /\ page_free_list = InitK.free
    /\ last = [op |-> "none", cur |-> 0, envid |-> 0, va |-> 0, perm |-> {},
                ret |-> 0]
    /\ steps = 0
    /\ lib = LibIdle
    /\ env_free_list = InitK.env_free
    /\ panicked = InitK.panic
    /\ \/ envs = InitEnvs /\ pc = [e \in Envs |-> "user"]
       \/ \E dstva \in {PGSIZE, UTOP} :
             /\ envs = trap_dispatch(InitK, IpcRecvCall(2, dstva)).envs
             /\ pc = [e \in Envs |-> IF e = 2 THEN "recv" ELSE "user"]

Next ==
    \/ PageAlloc
    \/ PageMap
    \/ PageUnmap
    \/ EnvSetStatus
    \/ IpcTrySend
    \/ IpcRecv

Spec == Init /\ [][Next]_vars

(***************************************************************************)
(* The whole system-call interface: the memory-grant and IPC calls above   *)
(* with the environment-management calls and the scheduler resuming an     *)
(* environment.  In the initial states environment 2 is running, or back  *)
(* in user code after its parent made it RUNNABLE while it was blocked in  *)
(* sys_ipc_recv; or slot 3 is still free.                                  *)
(***************************************************************************)
FreeEnv == [InitEnv(0) EXCEPT !.env_parent_id = 0, !.env_status = ENV_FREE,
                              !.env_tf = ZeroTf]

\* Trap frame pointers and upcall addresses user code passes.
TfVAs == UserPages
Upcalls == {PGSIZE}

EnvDestroy ==
    \E cur \in Envs : \E envid \in Live(cur) :
        Trap(EnvDestroyCall(cur, envid))

Exofork ==
    \E cur \in Envs, pd_ok \in BOOLEAN :
        Trap(ExoforkCall(cur, pd_ok))

EnvSetTrapframe ==
    \E cur \in Envs : \E envid \in Live(cur), tf \in TfVAs :
        Trap(EnvSetTrapframeCall(cur, envid, tf))

EnvSetPgfaultUpcall ==
    \E cur \in Envs : \E envid \in Live(cur), func \in Upcalls :
        Trap(EnvSetPgfaultUpcallCall(cur, envid, func))

\* env_run: the scheduler runs a RUNNABLE environment, which goes on in user
\* code from where its saved context stands.
Resume ==
    \E e \in Envs :
        /\ CanRun(K, e)
        /\ ~panicked
        /\ pc[e] = "recv"
        /\ pc' = [pc EXCEPT ![e] = "user"]
        /\ last' = [op |-> "env_run", cur |-> e, envid |-> 0, va |-> 0,
                    perm |-> {}, ret |-> 0]
        /\ UNCHANGED <<envs, pgdir, env_pt, kern_pt, pp_ref, page_free_list,
                       steps, env_free_list, panicked, lib>>

InitEnvSpec ==
    /\ pgdir = InitK.pgdir
    /\ env_pt = InitK.env_pt
    /\ kern_pt = InitK.kern_pt
    /\ pp_ref = InitK.pp_ref
    /\ page_free_list = InitK.free
    /\ last = [op |-> "none", cur |-> 0, envid |-> 0, va |-> 0, perm |-> {},
                ret |-> 0]
    /\ steps = 0
    /\ lib = LibIdle
    /\ panicked = FALSE
    /\ \/ /\ envs = InitEnvs
          /\ env_free_list = <<>>
          /\ pc = [e \in Envs |-> "user"]
       \/ /\ envs = trap_dispatch(trap_dispatch(InitK, IpcRecvCall(2, UTOP)),
                                   EnvSetStatusCall(1, 2, ENV_RUNNABLE)).envs
          /\ env_free_list = <<>>
          /\ pc = [e \in Envs |-> "user"]
       \/ /\ envs = [InitEnvs EXCEPT ![NENV] = FreeEnv]
          /\ env_free_list = <<NENV>>
          /\ pc = [e \in Envs |-> "user"]

NextEnv ==
    \/ PageAlloc
    \/ PageMap
    \/ PageUnmap
    \/ EnvSetStatus
    \/ IpcTrySend
    \/ IpcRecv
    \/ EnvDestroy
    \/ Exofork
    \/ EnvSetTrapframe
    \/ EnvSetPgfaultUpcall
    \/ Resume

SpecEnv == InitEnvSpec /\ [][NextEnv]_vars

(***************************************************************************)
(* User code calling the library: every environment calls ipc_send or      *)
(* ipc_recv at most once.  lib[e].at is where environment e stands in the  *)
(* call: "try" before sys_ipc_try_send in the loop of ipc_send, "yield"    *)
(* before sys_yield in its body, "sent" after the loop; "recv" inside      *)
(* sys_ipc_recv, "received" after ipc_recv returned; "aborted" after a     *)
(* panic() of the library.                                                 *)
(***************************************************************************)
\* The arguments user code passes to the library.
SendTargets(e) == (1..BadEnvId) \ {e}
SendPages == {NULL, UTOP - PGSIZE}
RecvPages == {NULL, PGSIZE}

\* The kernel state after a system call that left r.
KernelLeaves(r) ==
    /\ envs' = r.envs
    /\ pgdir' = r.pgdir
    /\ env_pt' = r.env_pt
    /\ kern_pt' = r.kern_pt
    /\ pp_ref' = r.pp_ref
    /\ page_free_list' = r.free
    /\ env_free_list' = r.env_free
    /\ panicked' = r.panic

InUserCode(e) ==
    ~panicked /\ CanRun(K, e) /\ pc[e] = "user" /\ lib[e].at = "user"

\* ipc_send(to_env, val, pg, perm) is entered: a null pg becomes UTOP.
LibSend ==
    \E e \in Envs :
        /\ InUserCode(e)
        /\ \E to_env \in SendTargets(e), val \in Values, pg \in SendPages :
              lib' = [lib EXCEPT ![e] = [NoLibCall EXCEPT
                                          !.at = "try",
                                          !.to_env = to_env,
                                          !.val = val,
                                          !.pg = ipc_send_arg(pg),
                                          !.perm = {PTE_P, PTE_U}]]
        /\ UNCHANGED <<envs, pgdir, env_pt, kern_pt, pp_ref, page_free_list,
                       last, steps, env_free_list, panicked, pc>>

\* The loop test: r = sys_ipc_try_send(...); the loop ends when r is 0 and
\* goes into its body on every other result.
TrySendStep(e) ==
    LET c == IpcTrySendCall(e, lib[e].to_env, lib[e].val, lib[e].pg,
                            lib[e].perm)
        r == trap_dispatch(K, c)
    IN  /\ lib[e].at = "try"
        /\ ~panicked
        /\ CanRun(K, e)
        /\ KernelLeaves(r)
        /\ last' = Record(c, r.ret)
        /\ lib' = [lib EXCEPT ![e].at = IF r.ret = 0 THEN "sent" ELSE "yield"]
        /\ UNCHANGED <<steps, pc>>

LibTrySend == \E e \in Envs : TrySendStep(e)

\* The loop body: sys_yield() gives up the processor; the environment is
\* back at the loop test when it is run again.
YieldStep(e) ==
    /\ lib[e].at = "yield"
    /\ ~panicked
    /\ CanRun(K, e)
    /\ lib' = [lib EXCEPT ![e].at = "try"]
    /\ last' = [op |-> "yield", cur |-> e, envid |-> 0, va |-> 0,
                perm |-> {}, ret |-> 0]
    /\ UNCHANGED <<envs, pgdir, env_pt, kern_pt, pp_ref, page_free_list,
                   steps, env_free_list, panicked, pc>>

LibYield == \E e \in Envs : YieldStep(e)

\* ipc_recv(from_env_store, pg, perm_store) up to sys_ipc_recv: on an error
\* it returns at once, otherwise the environment is suspended in the call.
LibRecv ==
    \E e \in Envs, pg \in RecvPages :
        LET c == IpcRecvCall(e, ipc_recv_arg(pg))
            r == trap_dispatch(K, c)
        IN  /\ InUserCode(e)
            /\ KernelLeaves(r)
            /\ last' = Record(c, r.ret)
            /\ pc' = [pc EXCEPT ![e] = Resumes(c, r.ret)]
            /\ lib' = [lib EXCEPT ![e] =
                         IF r.ret < 0
                         THEN [NoLibCall EXCEPT
                                 !.at = "received",
                                 !.result = ipc_recv_result(r, e, r.ret)]
                         ELSE [NoLibCall EXCEPT !.at = "recv", !.pg = pg]]
            /\ UNCHANGED steps

\* The receiver runs again: sys_ipc_recv has returned 0 and ipc_recv hands
\* back the message found in the environment's record.
RecvReturnStep(e) ==
    /\ lib[e].at = "recv"
    /\ ~panicked
    /\ CanRun(K, e)
    /\ pc' = [pc EXCEPT ![e] = "user"]
    /\ lib' = [lib EXCEPT ![e].at = "received",
                          ![e].result = ipc_recv_result(K, e, 0)]
    /\ last' = [op |-> "env_run", cur |-> e, envid |-> 0, va |-> 0,
                perm |-> {}, ret |-> 0]
    /\ UNCHANGED <<envs, pgdir, env_pt, kern_pt, pp_ref, page_free_list,
                   steps, env_free_list, panicked>>

LibRecvReturn == \E e \in Envs : RecvReturnStep(e)

InitLib ==
    /\ envs = InitEnvs
    /\ pgdir = InitK.pgdir
    /\ env_pt = InitK.env_pt
    /\ kern_pt = InitK.kern_pt
    /\ pp_ref = InitK.pp_ref
    /\ page_free_list = InitK.free
    /\ env_free_list = InitK.env_free
    /\ panicked = InitK.panic
    /\ last = [op |-> "none", cur |-> 0, envid |-> 0, va |-> 0, perm |-> {},
                ret |-> 0]
    /\ steps = 0
    /\ pc = [e \in Envs |-> "user"]
    /\ lib = LibIdle

NextLib ==
    \/ LibSend
    \/ LibTrySend
    \/ LibYield
    \/ LibRecv
    \/ LibRecvReturn

SpecLib == InitLib /\ [][NextLib]_vars

(***************************************************************************)
(* The library under a fair scheduler, with the other call that changes an *)
(* environment's status: an environment in user code makes another         *)
(* RUNNABLE with sys_env_set_status.  sched_yield goes round the           *)
(* environments, so an environment that stays RUNNABLE is run again and    *)
(* takes the next step of the library call it is in.  Initially the last   *)
(* environment is already suspended in ipc_recv.                           *)
(***************************************************************************)
LibSetRunnable ==
    \E cur \in Envs : \E envid \in Live(cur) \ {0} :
        LET c == EnvSetStatusCall(cur, envid, ENV_RUNNABLE)
            r == trap_dispatch(K, c)
        IN  /\ steps < MaxSteps
            /\ ~panicked
            /\ CanRun(K, cur)
            /\ pc[cur] = "user"
            /\ lib[cur].at \in {"user", "sent", "received"}
            /\ KernelLeaves(r)
            /\ last' = Record(c, r.ret)
            /\ steps' = steps + 1
            /\ UNCHANGED <<pc, lib>>

\* The root environment supervises its children and leaves the library to
\* them.
Supervisor == 1
ByChild == lib'[Supervisor] = lib[Supervisor]

\* The next step of the library call environment e is in.
LibStep(e) == TrySendStep(e) \/ YieldStep(e) \/ RecvReturnStep(e)

\* Environment NENV has called ipc_recv and is suspended in sys_ipc_recv.
InitSched ==
    \E pg \in RecvPages :
        /\ envs = trap_dispatch(InitK, IpcRecvCall(NENV, ipc_recv_arg(pg))).envs
        /\ pgdir = InitK.pgdir
        /\ env_pt = InitK.env_pt
        /\ kern_pt = InitK.kern_pt
        /\ pp_ref = InitK.pp_ref
        /\ page_free_list = InitK.free
        /\ env_free_list = InitK.env_free
        /\ panicked = InitK.panic
        /\ last = Record(IpcRecvCall(NENV, ipc_recv_arg(pg)), 0)
        /\ steps = 0
        /\ pc = [e \in Envs |-> IF e = NENV THEN "recv" ELSE "user"]
        /\ lib = [LibIdle EXCEPT ![NENV] = [NoLibCall EXCEPT !.at = "recv",
                                                            !.pg = pg]]

NextSched ==
    \/ LibSend /\ ByChild
    \/ LibTrySend
    \/ LibYield
    \/ LibRecv /\ ByChild
    \/ LibRecvReturn
    \/ LibSetRunnable

SpecSched ==
    InitSched /\ [][NextSched]_vars /\ \A e \in Envs : WF_vars(LibStep(e))

(***************************************************************************)
(* Vocabulary of the properties.  A property about a call is stated for    *)
(* every reachable state and every call a runnable environment can make in *)
(* it; trap_dispatch(K, c) is the state the call leaves.  last records the *)
(* operation, caller, handle and result of the latest call; in a step      *)
(* property the unprimed variables are the state before the call last'     *)
(* records.                                                                *)
(***************************************************************************)
Handles == 0..BadEnvId
Callers == {e \in Envs : ~panicked /\ CanRun(K, e)}

\* The environment a send addresses (0: the handle does not resolve).
Target(k, c) == envid2env(k, c.cur, c.envid, FALSE)

\* Waiting: blocked in Receive.
WaitingEnv(env) == env.env_status = ENV_NOT_RUNNABLE /\ env.env_ipc_recving

IpcFields(env) ==
    <<env.env_ipc_recving, env.env_ipc_dstva, env.env_ipc_from,
      env.env_ipc_value, env.env_ipc_perm>>

\* The call changes nothing in the kernel state (the caller's result aside).
NoEffect(c) == [syscall(K, c) EXCEPT !.ret = 0] = K

IsSend(l) == l.op = "ipc_try_send"

\* A send whose page step, if any, cannot fail: the source page is mapped
\* user-accessible, no write grant on a read-only page, and the receiver's
\* page table exists or can be allocated.
ValidSend(c, b) ==
    \/ c.va >= UTOP
    \/ envs[b].env_ipc_dstva >= UTOP
    \/ /\ c.va \in UserPages
       /\ {PTE_P, PTE_U} \subseteq pgdir[c.cur][c.va].perm
       /\ (PTE_W \in c.perm => PTE_W \in pgdir[c.cur][c.va].perm)
       /\ (env_pt[b] # 0 \/ page_free_list # <<>>)

(***************************************************************************)
(* C1: a Receive is satisfied by at most one TrySend.  While an existing   *)
(* environment b has ipc_recving clear, every TrySend addressed to it      *)
(* returns IPC_NOT_RECV, and a valid TrySend to a waiting b returns 0; a   *)
(* TrySend that returns 0 found b waiting and clears the flag; only b's    *)
(* own successful Receive sets it again; and of two consecutive sends to   *)
(* the same b, the first returning 0, the second returns IPC_NOT_RECV.     *)
(***************************************************************************)
C1_State ==
    \A a \in Callers, envid \in Handles, value \in Values, va \in VAs,
       perm \in Perms :
        LET c == IpcTrySendCall(a, envid, value, va, perm)
            b == Target(K, c) IN
        /\ (b # 0 /\ ~envs[b].env_ipc_recving)
              => trap_dispatch(K, c).ret = -E_IPC_NOT_RECV
        /\ (b # 0 /\ WaitingEnv(envs[b]) /\ ValidSend(c, b))
              => trap_dispatch(K, c).ret = 0

C1_Step ==
    /\ (IsSend(last') /\ last'.ret = 0) =>
          LET b == Target(K, last') IN
          /\ b # 0
          /\ WaitingEnv(envs[b])
          /\ ~envs'[b].env_ipc_recving
    /\ \A b \in Envs :
          (~envs[b].env_ipc_recving /\ envs'[b].env_ipc_recving) =>
              /\ last'.op = "ipc_recv"
              /\ last'.cur = b
              /\ last'.ret = 0
    /\ (IsSend(last) /\ last.ret = 0 /\ IsSend(last')
          /\ Target(K, last') # 0
          /\ Target(K, last') = Target(K, last))
       => last'.ret = -E_IPC_NOT_RECV

C1_OneSendPerReceive == [](C1_State) /\ [][C1_Step]_vars

\* Reached: b was satisfied by one sender and another sender's TrySend to b
\* came back IPC_NOT_RECV.
C1_Witness ==
    /\ IsSend(last)
    /\ last.ret = -E_IPC_NOT_RECV
    /\ steps = 2
    /\ \E b \in Envs :
          /\ Target(K, last) = b
          /\ ~envs[b].env_ipc_recving
          /\ envs[b].env_status = ENV_RUNNABLE
          /\ envs[b].env_ipc_from \in Envs \ {last.cur}
          /\ envs[b].env_ipc_value \in Values

(***************************************************************************)
(* C2: whenever TrySend(target, value, src_va, perm) by a returns 0, the   *)
(* target's record right after the call is its record before with          *)
(* ipc_recving false, ipc_from a's id, ipc_value value, ipc_perm perm if a *)
(* page was transferred and 0 otherwise, saved return-value register 0 and *)
(* status RUNNABLE; the page is transferred exactly when both sides named  *)
(* an address below the split.                                             *)
(***************************************************************************)
C2_SendPostcondition ==
    \A a \in Callers, envid \in Handles, value \in Values, va \in VAs,
       perm \in Perms :
        LET c == IpcTrySendCall(a, envid, value, va, perm)
            r == trap_dispatch(K, c)
            t == Target(K, c)
        IN
        r.ret = 0 =>
          /\ t # 0
          /\ LET paged == c.va < UTOP /\ envs[t].env_ipc_dstva < UTOP IN
             /\ r.envs[t] =
                  [envs[t] EXCEPT !.env_ipc_recving = FALSE,
                                  !.env_ipc_from = envs[a].env_id,
                                  !.env_ipc_value = c.value,
                                  !.env_ipc_perm = IF paged THEN c.perm ELSE {},
                                  !.env_tf.reg_eax = 0,
                                  !.env_status = ENV_RUNNABLE]
             /\ IF paged
                THEN r.pgdir[t][envs[t].env_ipc_dstva].frame = pgdir[a][c.va].frame
                ELSE r.pgdir = pgdir

\* Reached: a send with a page has returned 0 and the target holds the
\* message.
C2_Witness ==
    /\ IsSend(last)
    /\ last.ret = 0
    /\ \E t \in Envs :
          /\ Target(K, last) = t
          /\ envs[t].env_ipc_from = envs[last.cur].env_id
          /\ envs[t].env_ipc_value \in Values
          /\ PTE_W \in envs[t].env_ipc_perm
          /\ ~envs[t].env_ipc_recving
          /\ envs[t].env_tf.reg_eax = 0
          /\ envs[t].env_status = ENV_RUNNABLE

(***************************************************************************)
(* C4: TrySend to an existing environment that is not waiting (status not  *)
(* NOT_RUNNABLE, or ipc_recving false) returns IPC_NOT_RECV whatever the   *)
(* other arguments are, and leaves its IPC fields and status unchanged.    *)
(***************************************************************************)
C4_NotWaitingRejected ==
    \A a \in Callers, envid \in Handles, value \in Values, va \in VAs,
       perm \in Perms :
        LET c == IpcTrySendCall(a, envid, value, va, perm)
            r == trap_dispatch(K, c)
            t == Target(K, c)
        IN
        (t # 0 /\ ~WaitingEnv(envs[t])) =>
          /\ r.ret = -E_IPC_NOT_RECV
          /\ IpcFields(r.envs[t]) = IpcFields(envs[t])
          /\ r.envs[t].env_status = envs[t].env_status

\* Reached: a send to an environment that is NOT_RUNNABLE without being in
\* Receive has returned IPC_NOT_RECV.
C4_Witness ==
    /\ IsSend(last)
    /\ last.ret = -E_IPC_NOT_RECV
    /\ \E t \in Envs :
          /\ Target(K, last) = t
          /\ envs[t].env_status = ENV_NOT_RUNNABLE
          /\ ~envs[t].env_ipc_recving

(***************************************************************************)
(* C3 (as stated): rendezvous round trip for every page-aligned X below    *)
(* the split and every page P the sender maps writable.  When b is blocked *)
(* in library Receive(X) and a's library Send(b, v, P, perm), perm         *)
(* including writable, returns, b's library Receive yields v, a and a perm *)
(* including writable, and X in b maps the frame P maps in a.              *)
(***************************************************************************)
RoundTrip(b, X, a, v, P, perm) ==
    LET r   == trap_dispatch(K, IpcTrySendCall(a, envs[b].env_id, v,
                                               ipc_send_arg(P), perm))
        res == ipc_recv_result(r, b, r.envs[b].env_tf.reg_eax)
    IN  r.ret = 0 =>
          /\ CanRun(r, b)
          /\ res.ret = v
          /\ res.from = envs[a].env_id
          /\ PTE_W \in res.perm
          /\ PTE_P \in r.pgdir[b][X].perm
          /\ r.pgdir[b][X].frame = r.pgdir[a][P].frame

BlockedInLibRecv(b, X) ==
    WaitingEnv(envs[b]) /\ envs[b].env_ipc_dstva = ipc_recv_arg(X)

MapsWritable(a, P) == {PTE_P, PTE_U, PTE_W} \subseteq pgdir[a][P].perm

C3_RoundTripEveryPage ==
    \A b \in Envs, X \in UserPages :
        BlockedInLibRecv(b, X) =>
            \A a \in Callers, v \in Values, P \in UserPages, perm \in Perms :
                (PTE_W \in perm /\ MapsWritable(a, P))
                    => RoundTrip(b, X, a, v, P, perm)

(***************************************************************************)
(* C3 (amended): the round trip holds for every non-null page-aligned X    *)
(* below the split and every non-null page P the sender maps writable; the *)
(* library passes a null page pointer as "no page".                        *)
(***************************************************************************)
C3_RoundTripNonNull ==
    \A b \in Envs, X \in UserPages \ {NULL} :
        BlockedInLibRecv(b, X) =>
            \A a \in Callers, v \in Values, P \in UserPages \ {NULL},
               perm \in Perms :
                (PTE_W \in perm /\ MapsWritable(a, P))
                    => RoundTrip(b, X, a, v, P, perm)

\* Reached: a send of a writable page has returned 0 and the receiver, made
\* runnable, reads the message and shares the sender's frame at another
\* address than the sender's.
C3_Witness ==
    /\ IsSend(last)
    /\ last.ret = 0
    /\ last.va \in UserPages \ {NULL}
    /\ PTE_W \in last.perm
    /\ \E b \in Envs :
          LET X == envs[b].env_ipc_dstva
              res == ipc_recv_result(K, b, envs[b].env_tf.reg_eax)
          IN
          /\ Target(K, last) = b
          /\ CanRun(K, b)
          /\ X \in UserPages \ {NULL, last.va}
          /\ res.ret \in Values
          /\ res.from = envs[last.cur].env_id
          /\ PTE_W \in res.perm
          /\ pgdir[b][X].frame = pgdir[last.cur][last.va].frame
          /\ pgdir[b][X].frame \in Frames

(***************************************************************************)
(* C5: TrySend is all-or-nothing.  Whenever a TrySend to a waiting target  *)
(* returns a negative result, the target's record (IPC fields, status,     *)
(* saved context) and address space are what they were, so the target is   *)
(* still waiting for the same Receive.                                     *)
(***************************************************************************)
C5_AllOrNothing ==
    \A a \in Callers, envid \in Handles, value \in Values, va \in VAs,
       perm \in Perms :
        LET c == IpcTrySendCall(a, envid, value, va, perm)
            r == trap_dispatch(K, c)
            t == Target(K, c)
        IN
        (t # 0 /\ WaitingEnv(envs[t]) /\ r.ret < 0) =>
          /\ r.ret \in {-E_INVAL, -E_NO_MEM}
          /\ r.envs[t] = envs[t]
          /\ r.pgdir[t] = pgdir[t]
          /\ r.env_pt[t] = env_pt[t]
          /\ r.kern_pt = kern_pt
          /\ WaitingEnv(r.envs[t])

\* Reached: a send to a waiting target failed for lack of memory and the
\* target still waits.
C5_Witness ==
    /\ IsSend(last)
    /\ last.ret = -E_NO_MEM
    /\ \E t \in Envs :
          /\ Target(K, last) = t
          /\ WaitingEnv(envs[t])
          /\ envs[t].env_ipc_dstva < UTOP
          /\ env_pt[t] = 0

(***************************************************************************)
(* C6: no privilege escalation through a grant.  Map-Across and the        *)
(* TrySend page transfer leave a writable destination mapping only if the  *)
(* grantor's mapping at src_va is writable; asking for writable on a       *)
(* read-only source returns invalid-argument and changes nothing.          *)
(***************************************************************************)
ReadOnly(pte) == PTE_P \in pte.perm /\ PTE_W \notin pte.perm

C6_MapAcross ==
    \A a \in Callers : \A srcenvid \in Live(a), srcva \in UserPages,
       dstenvid \in Live(a), dstva \in UserPages, perm \in Perms :
        LET c == PageMapCall(a, srcenvid, srcva, dstenvid, dstva, perm)
            r == trap_dispatch(K, c)
            s == envid2env(K, a, c.envid, TRUE)
            d == envid2env(K, a, c.dstenvid, TRUE)
        IN
        (s # 0 /\ d # 0) =>
          /\ (r.ret = 0 /\ PTE_W \in PteAt(r, d, c.dstva).perm)
                => PTE_W \in PteAt(K, s, c.va).perm
          /\ (ReadOnly(PteAt(K, s, c.va)) /\ PTE_W \in c.perm)
                => (r.ret = -E_INVAL /\ NoEffect(c))

C6_PageTransfer ==
    \A a \in Callers, envid \in Handles, value \in Values, va \in VAs,
       perm \in Perms :
        LET c == IpcTrySendCall(a, envid, value, va, perm)
            r == trap_dispatch(K, c)
            t == Target(K, c)
        IN
        (t # 0 /\ WaitingEnv(envs[t]) /\ envs[t].env_ipc_dstva < UTOP
              /\ c.va \in UserPages) =>
          /\ (r.ret = 0 /\ PTE_W \in r.pgdir[t][envs[t].env_ipc_dstva].perm)
                => PTE_W \in pgdir[a][c.va].perm
          /\ (ReadOnly(pgdir[a][c.va]) /\ PTE_W \in c.perm)
                => (r.ret = -E_INVAL /\ NoEffect(c))

C6_NoEscalation == C6_MapAcross /\ C6_PageTransfer

\* Reached: a send offering a read-only page as writable was refused and the
\* receiver still waits with no mapping at the address it asked for.
C6_Witness ==
    /\ IsSend(last)
    /\ last.ret = -E_INVAL
    /\ last.va \in UserPages
    /\ PTE_W \in last.perm
    /\ {PTE_P, PTE_U} \subseteq pgdir[last.cur][last.va].perm
    /\ PTE_W \notin pgdir[last.cur][last.va].perm
    /\ \E t \in Envs :
          /\ Target(K, last) = t
          /\ WaitingEnv(envs[t])
          /\ envs[t].env_ipc_dstva < UTOP
          /\ pgdir[t][envs[t].env_ipc_dstva] = NoPte

(***************************************************************************)
(* C7 (as stated): Allocate+Map accepts perm only when it is exactly       *)
(* {present,user} or {present,user,writable}; for every other perm it      *)
(* returns invalid-argument and changes nothing.                           *)
(***************************************************************************)
LegalPerms == { {PTE_P, PTE_U}, {PTE_P, PTE_U, PTE_W} }

\* va names a user page: page-aligned and strictly below the split.
UserPageVa(va) == va < UTOP /\ va % PGSIZE = 0

C7_AllocRejectsBadPerm ==
    \A a \in Callers, envid \in Handles, va \in VAs, perm \in Perms :
        LET c == PageAllocCall(a, envid, va, perm) IN
        (envid2env(K, a, c.envid, TRUE) # 0 /\ UserPageVa(c.va)
              /\ c.perm \notin LegalPerms)
        => (trap_dispatch(K, c).ret = -E_INVAL /\ NoEffect(c))

(***************************************************************************)
(* C8 (as stated): Map-Across and the TrySend page transfer reject every   *)
(* perm that is not {present,user} or {present,user,writable} with         *)
(* invalid-argument before any mapping is inserted.                        *)
(***************************************************************************)
C8_GrantRejectsBadPerm ==
    /\ \A a \in Callers : \A srcenvid \in Live(a), srcva \in RunVAs,
          dstenvid \in Live(a), dstva \in RunVAs, perm \in Perms :
          LET c == PageMapCall(a, srcenvid, srcva, dstenvid, dstva, perm) IN
          (envid2env(K, a, c.envid, TRUE) # 0
                /\ envid2env(K, a, c.dstenvid, TRUE) # 0
                /\ c.perm \notin LegalPerms)
          => (trap_dispatch(K, c).ret = -E_INVAL /\ NoEffect(c))
    /\ \A a \in Callers, envid \in Handles, value \in Values, va \in VAs,
          perm \in Perms :
          LET c == IpcTrySendCall(a, envid, value, va, perm)
              t == Target(K, c)
          IN
          (t # 0 /\ WaitingEnv(envs[t]) /\ envs[t].env_ipc_dstva < UTOP
                /\ c.va < UTOP /\ c.perm \notin LegalPerms)
          => (trap_dispatch(K, c).ret = -E_INVAL /\ NoEffect(c))

(***************************************************************************)
(* C9 (as stated): Allocate+Map, Map-Across and Unmap return               *)
(* invalid-argument and mutate nothing for every page address at or above  *)
(* the split or not page-aligned.                                          *)
(***************************************************************************)
C9_PageVaBelowSplit ==
    /\ \A a \in Callers, envid \in Handles, va \in VAs, perm \in Perms :
        LET c == PageAllocCall(a, envid, va, perm) IN
          (envid2env(K, a, c.envid, TRUE) # 0 /\ ~UserPageVa(c.va))
          => (trap_dispatch(K, c).ret = -E_INVAL /\ NoEffect(c))
    /\ \A a \in Callers, envid \in Handles, va \in VAs :
          LET c == PageUnmapCall(a, envid, va) IN
          (envid2env(K, a, c.envid, TRUE) # 0 /\ ~UserPageVa(c.va))
          => (trap_dispatch(K, c).ret = -E_INVAL /\ NoEffect(c))
    /\ \A a \in Callers : \A srcenvid \in Live(a), srcva \in RunVAs,
          dstenvid \in Live(a), dstva \in RunVAs, perm \in Perms :
          LET c == PageMapCall(a, srcenvid, srcva, dstenvid, dstva, perm) IN
          (envid2env(K, a, c.envid, TRUE) # 0
                /\ envid2env(K, a, c.dstenvid, TRUE) # 0
                /\ (~UserPageVa(c.va) \/ ~UserPageVa(c.dstva)))
          => (trap_dispatch(K, c).ret = -E_INVAL /\ NoEffect(c))

(***************************************************************************)
(* C10 (as stated): Allocate+Map leaks no frame.  Whenever the allocator   *)
(* has a frame to give and the call returns out-of-memory, the free list   *)
(* and the reference counts after the call are those before it.            *)
(***************************************************************************)
C10_AllocLeaksNoFrame ==
    \A a \in Callers, envid \in Handles, va \in VAs, perm \in Perms :
        LET c == PageAllocCall(a, envid, va, perm)
            r == trap_dispatch(K, c) IN
        (page_free_list # <<>> /\ r.ret = -E_NO_MEM)
        => (r.free = page_free_list /\ r.pp_ref = pp_ref)

(***************************************************************************)
(* C11: Unmap is idempotent.  For every authorized target and valid va,    *)
(* Unmap of an unmapped address returns 0 and changes nothing; Unmap of a  *)
(* mapped address returns 0, clears that one mapping and drops that        *)
(* frame's reference count by exactly one (freeing it at zero); and Unmap  *)
(* applied to the state Unmap left changes nothing more.                   *)
(***************************************************************************)
C11_UnmapIdempotent ==
    \A a \in Callers, envid \in Handles, va \in UserPages :
        LET c   == PageUnmapCall(a, envid, va)
            e   == envid2env(K, a, envid, TRUE)
            r   == syscall(K, c)
            pte == pgdir[e][va]
            f   == pte.frame
        IN
        e # 0 =>
          /\ r.ret = 0
          /\ PTE_P \notin pte.perm => NoEffect(c)
          /\ PTE_P \in pte.perm =>
                /\ r.pgdir = [pgdir EXCEPT ![e][va] = NoPte]
                /\ r.pp_ref = [pp_ref EXCEPT ![f] = pp_ref[f] - 1]
                /\ r.free = IF pp_ref[f] = 1 THEN <<f>> \o page_free_list
                            ELSE page_free_list
                /\ r.envs = envs /\ r.env_pt = env_pt /\ r.kern_pt = kern_pt
          /\ syscall(r, c) = r

\* Reached: the root environment has unmapped its only page, whose frame is
\* free again.
C11_Witness ==
    /\ last.op = "page_unmap"
    /\ last.ret = 0
    /\ last.cur = 1
    /\ pgdir[1][UTOP - PGSIZE] = NoPte
    /\ pp_ref[2] = 0
    /\ Head(page_free_list) = 2

(***************************************************************************)
(* C13 (as stated): Set-Status on an authorized live target writes status  *)
(* and returns 0 exactly when the status argument is RUNNABLE or           *)
(* NOT_RUNNABLE; for every other argument it returns invalid-argument and  *)
(* leaves the target's status unchanged.                                   *)
(***************************************************************************)
SettableStatuses == {ENV_RUNNABLE, ENV_NOT_RUNNABLE}

C13_SetStatusValidatesArgument ==
    \A a \in Callers, envid \in Handles, status \in Statuses :
        LET c == EnvSetStatusCall(a, envid, status)
            e == envid2env(K, a, envid, TRUE)
            r == syscall(K, c)
        IN
        e # 0 =>
            IF status \in SettableStatuses
            THEN r.ret = 0 /\ r.envs[e].env_status = status
            ELSE r.ret = -E_INVAL /\ r.envs[e].env_status = envs[e].env_status

(***************************************************************************)
(* C18 (as stated): Receive(dst_va) accepts only the split value or a      *)
(* page-aligned address below the split; for every other dst_va            *)
(* (misaligned below the split, or any value above the split) it returns   *)
(* invalid-argument and leaves the caller's record unchanged.              *)
(***************************************************************************)
RecvVAs == VAs \cup {UTOP + 1}

C18_RecvRejectsAboveSplit ==
    \A a \in Callers, dstva \in RecvVAs :
        LET c == IpcRecvCall(a, dstva) IN
        (dstva # UTOP /\ ~UserPageVa(dstva))
            => (syscall(K, c).ret = -E_INVAL /\ NoEffect(c))

(***************************************************************************)
(* C18 (amended): Receive(dst_va) returns invalid-argument, changing       *)
(* nothing, exactly for a misaligned dst_va below the split.  Every other  *)
(* dst_va is accepted with result 0: the caller gets ipc_recving = true,   *)
(* status NOT_RUNNABLE and ipc_dst_va = dst_va when dst_va is below the    *)
(* split, the split value when dst_va is at or above it; nothing else      *)
(* changes.                                                                *)
(***************************************************************************)
C18_RecvArgument ==
    \A a \in Callers, dstva \in RecvVAs :
        LET c == IpcRecvCall(a, dstva)
            r == syscall(K, c)
        IN
        IF dstva < UTOP /\ dstva % PGSIZE # 0
        THEN r.ret = -E_INVAL /\ NoEffect(c)
        ELSE /\ r.ret = 0
             /\ r = [K EXCEPT
                      !.envs[a].env_ipc_recving = TRUE,
                      !.envs[a].env_ipc_dstva =
                          IF dstva < UTOP THEN dstva ELSE UTOP,
                      !.envs[a].env_status = ENV_NOT_RUNNABLE]

\* Reached: an environment's Receive without a page has been accepted and
\* the environment waits with the split value recorded.
C18_Witness ==
    /\ last.op = "ipc_recv"
    /\ last.ret = 0
    /\ steps > 0
    /\ WaitingEnv(envs[last.cur])
    /\ envs[last.cur].env_ipc_dstva = UTOP
    /\ envs[last.cur].env_tf.reg_eax = 0

(***************************************************************************)
(* C19 (as stated): after every successful TrySend the receiver's ipc_perm *)
(* is nonzero if and only if that TrySend mapped a page into the           *)
(* receiver's address space at its requested dst_va; it is 0 whenever the  *)
(* page step was skipped.                                                  *)
(***************************************************************************)
C19_PermNonzeroIffPage ==
    \A a \in Callers, envid \in Handles, value \in Values, va \in VAs,
       perm \in Perms :
        LET c == IpcTrySendCall(a, envid, value, va, perm)
            r == trap_dispatch(K, c)
            t == Target(K, c)
        IN
        r.ret = 0 =>
            LET dstva == envs[t].env_ipc_dstva
                paged == IpcPageStep(va, dstva)
            IN
            /\ (r.envs[t].env_ipc_perm # {}) <=> paged
            /\ paged => /\ PTE_P \in r.pgdir[t][dstva].perm
                        /\ r.pgdir[t][dstva].frame = pgdir[a][va].frame
            /\ ~paged => r.pgdir = pgdir

(***************************************************************************)
(* C12.  Spawn (sys_exofork): on success the new environment is            *)
(* NOT_RUNNABLE, its parent is the caller, and its saved context is the    *)
(* caller's in every field but the return-value register, which is 0 in    *)
(* the child while the caller's own result is the new, nonzero handle;     *)
(* with no free slot the call returns -E_NO_FREE_ENV and creates nothing.  *)
(***************************************************************************)
C12_Exofork ==
    \A a \in Callers, pd_ok \in BOOLEAN :
        LET c == ExoforkCall(a, pd_ok)
            r == trap_dispatch(K, c)
        IN  /\ r.ret >= 0 =>
                /\ r.ret \in Envs \ {a}
                /\ envs[r.ret].env_status = ENV_FREE
                /\ r.envs[r.ret].env_id = r.ret
                /\ r.envs[r.ret].env_status = ENV_NOT_RUNNABLE
                /\ r.envs[r.ret].env_parent_id = envs[a].env_id
                /\ r.envs[r.ret].env_tf = [envs[a].env_tf EXCEPT !.reg_eax = 0]
                /\ r.envs[a].env_tf = [envs[a].env_tf EXCEPT !.reg_eax = r.ret]
            /\ env_free_list = <<>> =>
                /\ r.ret = -E_NO_FREE_ENV
                /\ NoEffect(c)

C12_Witness ==
    /\ last.op = "exofork"
    /\ last.ret \in Envs
    /\ envs[last.ret].env_status = ENV_NOT_RUNNABLE
    /\ envs[last.ret].env_parent_id = envs[last.cur].env_id
    /\ envs[last.cur].env_tf.reg_eax = last.ret


(***************************************************************************)
(* C15.  Receive blocks until a matching send: an environment suspended in *)
(* a successful sys_ipc_recv stays NOT_RUNNABLE and runs no user code      *)
(* across every step, unless the step is a TrySend to it returning 0 or    *)
(* tears it down.                                                          *)
(***************************************************************************)
BlockedInRecv(b) == pc[b] = "recv" /\ WaitingEnv(envs[b])

C15_BlocksUntilSend ==
    [][\A b \in Envs :
          BlockedInRecv(b) =>
              \/ BlockedInRecv(b)'
              \/ IsSend(last') /\ last'.ret = 0 /\ Target(K, last') = b
              \/ InFreeList(K, b)']_vars


(***************************************************************************)
(* C20.  In every reachable state a TrySend to an environment that is not  *)
(* suspended inside a sys_ipc_recv call it has not yet resumed from fails  *)
(* with -E_IPC_NOT_RECV: a TrySend returns 0 only for a target whose saved *)
(* context stands at an unreturned Receive.                                *)
(***************************************************************************)
C20_SendOnlyToSuspendedReceiver ==
    \A a \in Callers, envid \in Envs, value \in Values,
       srcva \in RunVAs, perm \in RunPerms :
        LET c == IpcTrySendCall(a, envid, value, srcva, perm)
            b == Target(K, c)
        IN  (b # 0 /\ pc[b] # "recv") => syscall(K, c).ret = -E_IPC_NOT_RECV


(***************************************************************************)
(* C16.  Set-Trapframe checks that the region holding the frame is         *)
(* readable in the caller's own address space: when it is not, the caller  *)
(* is terminated and the target's saved context is unchanged; when it is,  *)
(* the frame is copied verbatim into the target's saved context and the    *)
(* result is 0.                                                            *)
(***************************************************************************)
\* The frame at tf lies in memory the caller may read.
FrameReadable(a, tf) == user_mem_check(K, a, tf, 1, {PTE_P})

C16_TrapframeCheckedInCaller ==
    \A a \in Callers, envid \in Handles, tf \in TfVAs :
        LET e == envid2env(K, a, envid, TRUE)
            r == syscall(K, EnvSetTrapframeCall(a, envid, tf))
        IN  e # 0 =>
                IF FrameReadable(a, tf)
                THEN /\ r.ret = 0
                     /\ ~r.panic
                     /\ r.envs[e].env_tf = TfIn(PteAt(K, a, tf).frame)
                ELSE /\ ~r.panic
                     /\ InFreeList(r, a)
                     /\ (e # a => r.envs[e].env_tf = envs[e].env_tf)


(***************************************************************************)
(* C17.  Isolation: a call of environment a changes the record (status,    *)
(* saved context, fault upcall) or the address space of another            *)
(* environment b only if a is authorized over b, or the call is a TrySend  *)
(* to b returning 0 while b is waiting; and Allocate+Map, Map-Across (for  *)
(* either handle), Unmap, Set-Status, Set-Trapframe and Set-Upcall through *)
(* a handle the caller is not authorized for return -E_BAD_ENV and change  *)
(* nothing.                                                                *)
(***************************************************************************)
Authorized(a, b) == envid2env(K, a, envs[b].env_id, TRUE) = b

EnvRecord(k, b) ==
    <<k.envs[b].env_status, k.envs[b].env_tf, k.envs[b].env_pgfault_upcall>>

\* What b has mapped: its own pages and the mappings every environment
\* shares from UTOP up.
AddressSpace(k, b) == <<k.pgdir[b], k.kern_pt>>

\* The calls an environment can make through the handle envid.
CallsThrough(a, envid) ==
    {PageAllocCall(a, envid, va, perm) : va \in VAs, perm \in RunPerms}
    \cup {PageMapCall(a, envid, srcva, 0, dstva, {PTE_P, PTE_U}) :
              srcva \in VAs, dstva \in RunVAs}
    \cup {PageMapCall(a, 0, srcva, envid, dstva, {PTE_P, PTE_U}) :
              srcva \in RunVAs, dstva \in VAs}
    \cup {PageUnmapCall(a, envid, va) : va \in VAs}
    \cup {EnvSetStatusCall(a, envid, status) : status \in Statuses}
    \cup {EnvSetTrapframeCall(a, envid, tf) : tf \in TfVAs}
    \cup {EnvSetPgfaultUpcallCall(a, envid, func) : func \in Upcalls}

C17_OnlyAuthorizedChange ==
    \A a \in Callers, envid \in Handles, b \in Envs :
        \A c \in CallsThrough(a, envid)
                   \cup {IpcTrySendCall(a, envid, value, srcva, {PTE_P, PTE_U}) :
                             value \in Values, srcva \in RunVAs} :
            LET r == syscall(K, c) IN
            (b # a /\ envs[b].env_status # ENV_FREE /\ ~Authorized(a, b)) =>
                \/ /\ EnvRecord(r, b) = EnvRecord(K, b)
                   /\ AddressSpace(r, b) = AddressSpace(K, b)
                \/ /\ IsSend(c)
                   /\ r.ret = 0
                   /\ Target(K, c) = b
                   /\ WaitingEnv(envs[b])

C17_UnauthorizedRefused ==
    \A a \in Callers, envid \in Handles :
        envid2env(K, a, envid, TRUE) = 0 =>
            \A c \in CallsThrough(a, envid) :
                syscall(K, c).ret = -E_BAD_ENV /\ NoEffect(c)

C17_Isolation == C17_OnlyAuthorizedChange /\ C17_UnauthorizedRefused


(***************************************************************************)
(* C14.  Library Send: after each sys_ipc_try_send of its loop, ipc_send   *)
(* returns when the result is 0, yields and retries when the result is     *)
(* -E_IPC_NOT_RECV, and on any other negative result aborts the caller     *)
(* and never invokes TrySend again.                                        *)
(***************************************************************************)
C14_SendRetriesOnlyNotRecv ==
    [][\A e \in Envs :
          (lib[e].at = "try" /\ lib'[e].at # "try") =>
              /\ IsSend(last') /\ last'.cur = e
              /\ last'.ret = 0 => lib'[e].at = "sent"
              /\ last'.ret = -E_IPC_NOT_RECV => lib'[e].at = "yield"
              /\ last'.ret \in {-E_BAD_ENV, -E_INVAL, -E_NO_MEM}
                     => lib'[e].at = "aborted"]_vars


(***************************************************************************)
(* C21.  Liveness of Send under a fair scheduler: when a is in             *)
(* ipc_send(b, v, ...) with arguments sys_ipc_try_send accepts, b is alive *)
(* and waiting, and no other environment sends to b, then (unless another  *)
(* sender to b turns up) a's ipc_send eventually returns and b is made     *)
(* RUNNABLE holding env_ipc_value = v and env_ipc_from = a.                *)
(***************************************************************************)
InSend(a, b) == lib[a].at \in {"try", "yield"} /\ lib[a].to_env = b

SendAccepted(a, b) ==
    ValidSend(IpcTrySendCall(a, b, lib[a].val, lib[a].pg, lib[a].perm), b)

NoOtherSender(a, b) == \A o \in Envs \ {a, b} : ~InSend(o, b)

Delivered(a, b) ==
    /\ lib[a].at = "sent"
    /\ envs[b].env_status = ENV_RUNNABLE
    /\ envs[b].env_ipc_value = lib[a].val
    /\ envs[b].env_ipc_from = envs[a].env_id

C21_SendEventuallyReturns ==
    \A a \in Envs : \A b \in Envs \ {a} :
        (/\ InSend(a, b)
         /\ SendAccepted(a, b)
         /\ WaitingEnv(envs[b])
         /\ NoOtherSender(a, b))
            ~> (Delivered(a, b) \/ ~NoOtherSender(a, b))

====
